---- MODULE Spec2Model ----
(***************************************************************************)
(* Model of app/operations: the Operation class hierarchy (Addition,       *)
(* Subtraction, Multiplication, Division over decimal.Decimal operands)    *)
(* and the OperationFactory registry with register_operation and           *)
(* create_operation.                                                       *)
(***************************************************************************)
EXTENDS Integers, Sequences, FiniteSets, TLC

VARIABLES
    _operations,  \* OperationFactory._operations: lowercase key -> class
    held,         \* the Operation instance the caller holds
    last,         \* the last call made, with its outcome
    ref,          \* an earlier execute call, kept for comparison
    args          \* the operand pair a caller has at hand for execute

vars == <<_operations, held, last, ref, args>>

----------------------------------------------------------------------------
(* Bounds of the operand space.                                            *)

\* operand coefficients range over -MaxCoef .. MaxCoef
MaxCoef == 6

\* operand exponents range over -MaxScale .. MaxScale
MaxScale == 1

\* decimal.getcontext().prec, the default context precision that comes with
\* "from decimal import Decimal"
Prec == 28

----------------------------------------------------------------------------
(* decimal.Decimal: sign, coefficient digits (most significant first) and  *)
(* exponent; the value is (-1)^sign * int * 10^exp.                        *)

RECURSIVE Pow10(_)
Pow10(n) == IF n <= 0 THEN 1 ELSE 10 * Pow10(n - 1)

Abs(n) == IF n < 0 THEN -n ELSE n

Min(x, y) == IF x <= y THEN x ELSE y

RECURSIVE DigitsOf(_)
DigitsOf(n) == IF n < 10 THEN <<n>> ELSE Append(DigitsOf(n \div 10), n % 10)

RECURSIVE IntOf(_)
IntOf(ds) ==
    IF Len(ds) = 0 THEN 0
    ELSE IntOf(SubSeq(ds, 1, Len(ds) - 1)) * 10 + ds[Len(ds)]

Zeros(n) == [i \in 1..n |-> 0]

RECURSIVE StripLeading(_)
StripLeading(ds) ==
    IF Len(ds) > 1 /\ ds[1] = 0 THEN StripLeading(Tail(ds)) ELSE ds

\* Decimal(str(n)) for an integer coefficient c and an exponent e
Decimal(c, e) ==
    [sign |-> IF c < 0 THEN 1 ELSE 0, int |-> DigitsOf(Abs(c)), exp |-> e]

Signed(d) == IF d.sign = 1 THEN -IntOf(d.int) ELSE IntOf(d.int)

\* Decimal.__eq__ against 0: the coefficient is zero, whatever sign or exponent
IsZero(d) == \A i \in 1..Len(d.int) : d.int[i] = 0

\* digits + 1, with carry
RECURSIVE IncDigits(_)
IncDigits(ds) ==
    IF Len(ds) = 0 THEN <<1>>
    ELSE IF ds[Len(ds)] < 9
         THEN [ds EXCEPT ![Len(ds)] = @ + 1]
         ELSE Append(IncDigits(SubSeq(ds, 1, Len(ds) - 1)), 0)

\* Decimal._fix: round the coefficient to the context precision, half-even
Fix(d) ==
    IF Len(d.int) <= Prec THEN d
    ELSE LET keep == SubSeq(d.int, 1, Prec)
             drop == SubSeq(d.int, Prec + 1, Len(d.int))
             rest == \E i \in 2..Len(drop) : drop[i] # 0
             up   == \/ drop[1] > 5
                     \/ drop[1] = 5 /\ rest
                     \/ drop[1] = 5 /\ ~rest /\ keep[Prec] % 2 = 1
             r    == IF up THEN IncDigits(keep) ELSE keep
             e    == d.exp + Len(drop)
         IN  IF Len(r) > Prec
             THEN [sign |-> d.sign, int |-> SubSeq(r, 1, Prec), exp |-> e + 1]
             ELSE [sign |-> d.sign, int |-> r, exp |-> e]

FromSigned(n, e) == Fix(Decimal(n, e))

\* Decimal.__add__: align to the smaller exponent, add the coefficients
DecAdd(a, b) ==
    LET e == Min(a.exp, b.exp)
    IN  FromSigned(Signed(a) * Pow10(a.exp - e) + Signed(b) * Pow10(b.exp - e), e)

\* Decimal.__sub__: a + (-b)
DecSub(a, b) == DecAdd(a, [b EXCEPT !.sign = 1 - @])

\* Decimal.__mul__: multiply the coefficients, add the exponents
DecMul(a, b) ==
    Fix([sign |-> (a.sign + b.sign) % 2,
         int  |-> DigitsOf(IntOf(a.int) * IntOf(b.int)),
         exp  |-> a.exp + b.exp])

\* long division of the digit string ds by the small integer m:
\* <<quotient digits, remainder>>
RECURSIVE LongDiv(_, _, _, _)
LongDiv(ds, m, q, r) ==
    IF Len(ds) = 0 THEN <<q, r>>
    ELSE LET cur == r * 10 + Head(ds)
         IN  LongDiv(Tail(ds), m, Append(q, cur \div m), cur % m)

\* drop trailing zeros of an exact quotient while exp is below the ideal exponent
RECURSIVE TowardIdeal(_, _, _)
TowardIdeal(ds, e, ideal) ==
    IF e < ideal /\ Len(ds) > 1 /\ ds[Len(ds)] = 0
    THEN TowardIdeal(SubSeq(ds, 1, Len(ds) - 1), e + 1, ideal)
    ELSE [int |-> ds, exp |-> e]

\* Decimal.__truediv__ for a non-zero divisor: the quotient of the coefficients
\* to Prec + 1 (or + 2) digits, a sticky digit when inexact, then _fix
DecDiv(a, b) ==
    LET shift == Len(b.int) - Len(a.int) + Prec + 1
        qr    == LongDiv(a.int \o Zeros(shift), IntOf(b.int), <<>>, 0)
        coeff == StripLeading(qr[1])
        e     == a.exp - b.exp - shift
        sgn   == (a.sign + b.sign) % 2
        n     == Len(coeff)
    IN  IF IsZero(a)
        THEN Fix([sign |-> sgn, int |-> <<0>>, exp |-> a.exp - b.exp])
        ELSE IF qr[2] # 0
        THEN Fix([sign |-> sgn,
                  int  |-> IF coeff[n] % 5 = 0
                           THEN [coeff EXCEPT ![n] = @ + 1] ELSE coeff,
                  exp  |-> e])
        ELSE LET t == TowardIdeal(coeff, e, a.exp - b.exp)
             IN  Fix([sign |-> sgn, int |-> t.int, exp |-> t.exp])

----------------------------------------------------------------------------
(* Names: strings as sequences of characters; str.lower.                    *)

UpperCase ==
    <<"A", "B", "C", "D", "E", "F", "G", "H", "I", "J", "K", "L", "M",
      "N", "O", "P", "Q", "R", "S", "T", "U", "V", "W", "X", "Y", "Z">>

LowerCase ==
    <<"a", "b", "c", "d", "e", "f", "g", "h", "i", "j", "k", "l", "m",
      "n", "o", "p", "q", "r", "s", "t", "u", "v", "w", "x", "y", "z">>

LowerChar(c) ==
    IF \E i \in DOMAIN UpperCase : UpperCase[i] = c
    THEN LowerCase[CHOOSE i \in DOMAIN UpperCase : UpperCase[i] = c]
    ELSE c

\* str.lower()
Lower(s) == [i \in 1..Len(s) |-> LowerChar(s[i])]

----------------------------------------------------------------------------
(* Classes.                                                                *)

BuiltinVariants == {"Addition", "Subtraction", "Multiplication", "Division"}

\* Operation and its subclasses: the four variants and the test suite's
\* NewOperation(Operation), which overrides execute
OperationClasses == BuiltinVariants \cup {"Operation", "NewOperation"}

\* all classes offered to the factory; InvalidOperation is the test suite's
\* class that does not inherit from Operation
Classes == OperationClasses \cup {"InvalidOperation"}

\* issubclass(operation_class, Operation)
IsSubclassOfOperation(operation_class) == operation_class \in OperationClasses

\* a class with an @abstractmethod left unimplemented: Operation itself
IsAbstract(operation_class) == operation_class = "Operation"

----------------------------------------------------------------------------
(* Outcomes of calls.                                                      *)

NoMsg == [text |-> "", arg |-> <<>>]

NoInst == [cls |-> "-", via |-> "-"]

\* None, where a Decimal could stand
NoValue == [sign |-> 0, int |-> <<>>, exp |-> 0]

Return(inst, value) ==
    [kind |-> "return", exc |-> "-", msg |-> NoMsg, inst |-> inst, value |-> value]

Raise(exc, text, arg) ==
    [kind |-> "raise", exc |-> exc, msg |-> [text |-> text, arg |-> arg],
     inst |-> NoInst, value |-> NoValue]

Step(fn, a, b) == [fn |-> fn, a |-> a, b |-> b]

NoCall ==
    [op |-> "-", name |-> <<>>, cls |-> "-", via |-> "-", a |-> NoValue, b |-> NoValue,
     steps |-> <<>>, out |-> Return(NoInst, NoValue)]

NoRef == [cls |-> "-", via |-> "-", a |-> NoValue, b |-> NoValue,
          out |-> Return(NoInst, NoValue)]

----------------------------------------------------------------------------
(* Operation.validate_operands, Division.validate_operands and execute.    *)

\* variant: Division's check looks at the dividend instead of the divisor
validate_operands_ChecksA(cls, a, b) ==
    IF cls = "Division"
    THEN [steps |-> <<Step("Division.validate_operands", a, b),
                      Step("Operation.validate_operands", a, b)>>,
          out   |-> IF IsZero(a)
                    THEN Raise("ValidationError", "Division by zero is not allowed", <<>>)
                    ELSE Return(NoInst, NoValue)]
    ELSE [steps |-> <<Step("Operation.validate_operands", a, b)>>,
          out   |-> Return(NoInst, NoValue)]

\* validate_operands as the class resolves it: the steps taken and the outcome
validate_operands(cls, a, b) ==
    IF cls = "Division"
    THEN [steps |-> <<Step("Division.validate_operands", a, b),
                      Step("Operation.validate_operands", a, b)>>,
          out   |-> IF IsZero(b)
                    THEN Raise("ValidationError", "Division by zero is not allowed", <<>>)
                    ELSE Return(NoInst, NoValue)]
    ELSE [steps |-> <<Step("Operation.validate_operands", a, b)>>,
          out   |-> Return(NoInst, NoValue)]

\* variant: Subtraction and Division take their operands in the wrong order
Arithmetic_Swapped(cls, a, b) ==
    CASE cls = "Addition"       -> Return(NoInst, DecAdd(a, b))
      [] cls = "Subtraction"    -> Return(NoInst, DecSub(b, a))
      [] cls = "Multiplication" -> Return(NoInst, DecMul(a, b))
      [] cls = "Division"       ->
           IF IsZero(b) \/ IsZero(a)
           THEN Raise("DivisionByZero", "", <<>>)
           ELSE Return(NoInst, DecDiv(b, a))

\* the arithmetic of each variant's execute; Decimal division by a zero
\* divisor raises decimal.DivisionByZero (decimal.InvalidOperation for 0 / 0)
Arithmetic(cls, a, b) ==
    CASE cls = "Addition"       -> Return(NoInst, DecAdd(a, b))
      [] cls = "Subtraction"    -> Return(NoInst, DecSub(a, b))
      [] cls = "Multiplication" -> Return(NoInst, DecMul(a, b))
      [] cls = "Division"       ->
           IF IsZero(b)
           THEN Raise(IF IsZero(a) THEN "InvalidOperation" ELSE "DivisionByZero",
                      "", <<>>)
           ELSE Return(NoInst, DecDiv(a, b))

ArithmeticStep(cls) ==
    CASE cls = "Addition"       -> "a + b"
      [] cls = "Subtraction"    -> "a - b"
      [] cls = "Multiplication" -> "a * b"
      [] cls = "Division"       -> "a / b"

\* variant: execute computes first and validates afterwards
execute_ComputeFirst(cls, a, b) ==
    IF cls = "NewOperation"
    THEN [steps |-> <<>>, out |-> Return(NoInst, a)]
    ELSE LET r == Arithmetic(cls, a, b)
             v == validate_operands(cls, a, b)
         IN  IF r.kind = "raise"
             THEN [steps |-> <<Step(ArithmeticStep(cls), a, b)>>, out |-> r]
             ELSE [steps |-> <<Step(ArithmeticStep(cls), a, b)>> \o v.steps,
                   out   |-> IF v.out.kind = "raise" THEN v.out ELSE r]

\* variant: a variant keeps the outcome of its previous call and hands it out again
execute_Sticky(cls, a, b) ==
    IF last.op = "execute" /\ last.cls = cls
    THEN [steps |-> last.steps, out |-> last.out]
    ELSE LET v == validate_operands(cls, a, b)
         IN  IF v.out.kind = "raise"
             THEN v
             ELSE [steps |-> Append(v.steps, Step(ArithmeticStep(cls), a, b)),
                   out   |-> Arithmetic(cls, a, b)]

\* cls.execute(a, b): the steps taken, in order, and the outcome
execute(cls, a, b) ==
    IF cls = "NewOperation"
    THEN [steps |-> <<>>, out |-> Return(NoInst, a)]
    ELSE LET v == validate_operands(cls, a, b)
         IN  IF v.out.kind = "raise"
             THEN v
             ELSE [steps |-> Append(v.steps, Step(ArithmeticStep(cls), a, b)),
                   out   |-> Arithmetic(cls, a, b)]

----------------------------------------------------------------------------
(* OperationFactory.                                                       *)

BuiltinOperations ==
    (<<"a", "d", "d">> :> "Addition")
    @@ (<<"s", "u", "b", "t", "r", "a", "c", "t">> :> "Subtraction")
    @@ (<<"m", "u", "l", "t", "i", "p", "l", "y">> :> "Multiplication")
    @@ (<<"d", "i", "v", "i", "d", "e">> :> "Division")

\* cls._operations[key] = operation_class
Store(reg, key, operation_class) ==
    [k \in DOMAIN reg \cup {key} |-> IF k = key THEN operation_class ELSE reg[k]]

\* the key register_operation stores under
RegisterKey(name) == Lower(name)

\* the outcome of register_operation's issubclass check
RegisterOutcome(operation_class) ==
    IF ~IsSubclassOfOperation(operation_class)
    THEN Raise("TypeError", "Operation class must inherit from Operation", <<>>)
    ELSE Return(NoInst, NoValue)

\* operation_class(): abstract classes cannot be instantiated
Instantiate(operation_class, via) ==
    IF IsAbstract(operation_class)
    THEN Raise("TypeError", "Can't instantiate abstract class", <<>>)
    ELSE Return([cls |-> operation_class, via |-> via], NoValue)

\* the key create_operation looks up
LookupKey(operation_type) == Lower(operation_type)

\* variant: the message carries the normalized name
CreateOutcome_LowerMsg(reg, operation_type) ==
    IF LookupKey(operation_type) \notin DOMAIN reg
    THEN Raise("ValueError", "Unknown operation: ", Lower(operation_type))
    ELSE Instantiate(reg[LookupKey(operation_type)], "factory")

\* create_operation's outcome against registry reg
CreateOutcome(reg, operation_type) ==
    IF LookupKey(operation_type) \notin DOMAIN reg
    THEN Raise("ValueError", "Unknown operation: ", operation_type)
    ELSE Instantiate(reg[LookupKey(operation_type)], "factory")

\* variant: the entry is stored before the class is checked
register_operation_StoreFirst(name, operation_class) ==
    LET out == RegisterOutcome(operation_class)
    IN  /\ _operations' = Store(_operations, RegisterKey(name), operation_class)
        /\ last' = [NoCall EXCEPT !.op = "register_operation", !.name = name,
                                  !.cls = operation_class, !.out = out]
        /\ UNCHANGED <<held, ref, args>>

register_operation(name, operation_class) ==
    LET out == RegisterOutcome(operation_class)
    IN  /\ _operations' = IF out.kind = "raise" THEN _operations
                          ELSE Store(_operations, RegisterKey(name), operation_class)
        /\ last' = [NoCall EXCEPT !.op = "register_operation", !.name = name,
                                  !.cls = operation_class, !.out = out]
        /\ UNCHANGED <<held, ref, args>>

\* variant: a successful lookup is remembered under the spelling requested
create_operation_Memo(operation_type) ==
    LET out == CreateOutcome(_operations, operation_type)
    IN  /\ held' = IF out.kind = "return" THEN out.inst ELSE held
        /\ _operations' = IF out.kind = "return"
                          THEN Store(_operations, operation_type, out.inst.cls)
                          ELSE _operations
        /\ last' = [NoCall EXCEPT !.op = "create_operation", !.name = operation_type,
                                  !.out = out]
        /\ UNCHANGED <<ref, args>>

create_operation(operation_type) ==
    LET out == CreateOutcome(_operations, operation_type)
    IN  /\ held' = IF out.kind = "return" THEN out.inst ELSE held
        /\ last' = [NoCall EXCEPT !.op = "create_operation", !.name = operation_type,
                                  !.out = out]
        /\ UNCHANGED <<_operations, ref, args>>

\* operation_class() called directly, as the tests do
Construct(operation_class) ==
    LET out == Instantiate(operation_class, "direct")
    IN  /\ held' = IF out.kind = "return" THEN out.inst ELSE held
        /\ last' = [NoCall EXCEPT !.op = "construct", !.cls = operation_class,
                                  !.out = out]
        /\ UNCHANGED <<_operations, ref, args>>

\* operation.execute(a, b) on the held instance
ExecuteCall(a, b) ==
    /\ held # NoInst
    /\ LET r == execute(held.cls, a, b)
       IN  last' = [NoCall EXCEPT !.op = "execute", !.cls = held.cls, !.via = held.via,
                                  !.a = a, !.b = b, !.steps = r.steps, !.out = r.out]
    /\ UNCHANGED <<_operations, held, args>>

Execute(a, b) == ExecuteCall(a, b) /\ UNCHANGED ref

\* the same call, kept as the reference observation
ExecuteObserved(a, b) ==
    /\ ExecuteCall(a, b)
    /\ ref' = [cls |-> last'.cls, via |-> last'.via, a |-> a, b |-> b, out |-> last'.out]

----------------------------------------------------------------------------
(* Inputs and specifications.                                              *)

Operands == {Decimal(c, e) : c \in -MaxCoef..MaxCoef, e \in -MaxScale..MaxScale}

SmallOperands == {Decimal(0, 0), Decimal(3, 0)}

Names ==
    { <<"a", "d", "d">>, <<"A", "D", "D">>, <<"A", "d", "d">>,
      <<"D", "I", "V", "I", "D", "E">>,
      <<"m", "o", "d">>, <<"M", "O", "D">>,
      <<"b", "o", "g", "u", "s">>, <<"B", "o", "g", "u", "s">> }

SmallNames == { <<"A", "D", "D">>, <<"m", "o", "d">> }

RegClasses == {"Subtraction", "NewOperation", "Operation", "InvalidOperation"}

SmallClasses == {"Subtraction", "Operation"}

NoArgs == <<NoValue, NoValue>>

\* the state after the module is imported
Startup ==
    /\ _operations = BuiltinOperations
    /\ held = NoInst
    /\ last = NoCall
    /\ ref = NoRef

Init == Startup /\ args = NoArgs

\* the factory alone: registrations and lookups under names of any casing
NextFactory ==
    \/ \E name \in Names, operation_class \in RegClasses :
           register_operation(name, operation_class)
    \/ \E operation_type \in Names : create_operation(operation_type)

SpecFactory == Init /\ [][NextFactory]_vars

\* execute alone: one operand pair drawn at the start, applied to instances of
\* every concrete class
InitExec == Startup /\ args \in Operands \X Operands

NextExec ==
    \/ \E operation_class \in OperationClasses \ {"Operation"} : Construct(operation_class)
    \/ Execute(args[1], args[2])

SpecExec == InitExec /\ [][NextExec]_vars

\* everything together, over small inputs
Next ==
    \/ \E name \in SmallNames, operation_class \in SmallClasses :
           register_operation(name, operation_class)
    \/ \E operation_type \in SmallNames : create_operation(operation_type)
    \/ \E operation_class \in BuiltinVariants : Construct(operation_class)
    \/ \E a \in SmallOperands, b \in SmallOperands : Execute(a, b)
    \/ \E a \in SmallOperands, b \in SmallOperands : ExecuteObserved(a, b)

Spec == Init /\ [][Next]_vars

----------------------------------------------------------------------------
(* Properties of the factory.                                              *)

\* a name is lowercase when lowering leaves every character as it is
IsLowercase(name) == \A i \in 1..Len(name) : LowerChar(name[i]) = name[i]

\* the case variants of key among the names callers use
CaseVariants(key) == {n \in Names : Lower(n) = key}

\* the last call was register_operation with a class outside the Operation
\* hierarchy
RejectedRegistration(call) ==
    call.op = "register_operation" /\ ~IsSubclassOfOperation(call.cls)

C2_EveryEntryInstantiable ==
    \A key \in DOMAIN _operations :
        /\ ~IsAbstract(_operations[key])
        /\ CreateOutcome(_operations, key).kind = "return"

\* C3: every registry key is lowercase, and for every key k of the registry
\* create_operation(k) and create_operation(K), for every case variant K of
\* k, return an instance of the same variant.
C3_CaseInsensitive ==
    \A key \in DOMAIN _operations :
        /\ IsLowercase(key)
        /\ \A K \in CaseVariants(key) \cup {key} :
               LET byKey == CreateOutcome(_operations, key)
                   byVar == CreateOutcome(_operations, K)
               IN  /\ byKey.kind = "return"
                   /\ byVar.kind = "return"
                   /\ byVar.inst.cls = byKey.inst.cls

\* the part of C3 that does not rest on instantiation: lowercase keys, and
\* every spelling of a key is looked up to the same outcome as the key itself
C3_SameLookup ==
    \A key \in DOMAIN _operations :
        /\ IsLowercase(key)
        /\ \A K \in CaseVariants(key) :
               /\ CreateOutcome(_operations, K) = CreateOutcome(_operations, key)
               /\ CreateOutcome(_operations, K).exc # "ValueError"

\* C4: create_operation(name) for a name whose lowercase form is not a key of
\* the registry raises ValueError, returns no instance, and its message
\* carries the name as the caller gave it, not its lowercase form.
C4_UnknownOperation ==
    (last.op = "create_operation" /\ Lower(last.name) \notin DOMAIN _operations) =>
        /\ last.out.kind = "raise"
        /\ last.out.exc = "ValueError"
        /\ last.out.inst = NoInst
        /\ last.out.msg = [text |-> "Unknown operation: ", arg |-> last.name]

C4_Witness ==
    /\ last.op = "create_operation"
    /\ last.out.exc = "ValueError"
    /\ last.name # Lower(last.name)
    /\ last.out.msg.arg = last.name
    /\ _operations # BuiltinOperations

\* a step that is a successful register_operation call
Registers(call) == call.op = "register_operation" /\ call.out.kind = "return"

\* C5: last registration wins: after a successful register_operation(name, C)
\* create_operation, under every spelling of name, returns an instance of C,
\* whether the key is new or was there before (a built-in key included); the
\* call changes no other entry, and no other call changes any entry.
C5_LastRegistrationWins ==
    [][ /\ Registers(last') =>
            /\ \A n \in CaseVariants(Lower(last'.name)) \cup {last'.name} :
                   LET out == CreateOutcome(_operations', n)
                   IN  out.kind = "return" /\ out.inst.cls = last'.cls
            /\ \A key \in DOMAIN _operations \ {Lower(last'.name)} :
                   key \in DOMAIN _operations' /\ _operations'[key] = _operations[key]
            /\ DOMAIN _operations' = DOMAIN _operations \cup {Lower(last'.name)}
        /\ ~Registers(last') => _operations' = _operations ]_vars

\* the part of C5 that does not rest on instantiation: the entry under the
\* lowercase name is the class just registered, and nothing else changes
C5_LastRegistrationStored ==
    [][ /\ Registers(last') =>
            /\ _operations'[Lower(last'.name)] = last'.cls
            /\ \A key \in DOMAIN _operations \ {Lower(last'.name)} :
                   key \in DOMAIN _operations' /\ _operations'[key] = _operations[key]
            /\ DOMAIN _operations' = DOMAIN _operations \cup {Lower(last'.name)}
        /\ ~Registers(last') => _operations' = _operations ]_vars

\* C9: create_operation never changes the registry, whether it returns an
\* instance or raises, for names known or unknown in any casing; a step that
\* changes the registry is a successful register_operation.
C9_CreateLeavesRegistry ==
    [][ /\ last'.op = "create_operation" => _operations' = _operations
        /\ _operations' # _operations => Registers(last') ]_vars

C9_Witness ==
    /\ last.op = "create_operation"
    /\ last.out.kind = "return"
    /\ last.name # Lower(last.name)
    /\ _operations # BuiltinOperations

----------------------------------------------------------------------------
(* Properties of execute.                                                  *)

ExecutedBy(call, cls) == call.op = "execute" /\ call.cls = cls

ValidateSteps == {"Division.validate_operands", "Operation.validate_operands"}

\* C6: Division.execute(a, b) with b equal to zero raises ValidationError
\* with the message "Division by zero is not allowed" and returns no number;
\* with b not zero it raises no validation failure.
C6_DivisionByZero ==
    ExecutedBy(last, "Division") =>
        IF IntOf(last.b.int) = 0
        THEN /\ last.out.kind = "raise"
             /\ last.out.exc = "ValidationError"
             /\ last.out.msg.text = "Division by zero is not allowed"
             /\ last.out.value = NoValue
        ELSE /\ last.out.kind = "return"
             /\ last.out.value # NoValue

C6_Witness ==
    /\ ExecutedBy(last, "Division")
    /\ IntOf(last.b.int) = 0
    /\ IntOf(last.a.int) # 0
    /\ last.out.exc = "ValidationError"

\* C7: execute of each of the four variants calls validate_operands on its
\* own two operands as its first step and before any arithmetic; when the
\* validation raises, no arithmetic step is taken and the outcome is that
\* very failure; for Addition, Subtraction and Multiplication the validation
\* never raises.
C7_ValidateFirst ==
    (last.op = "execute" /\ last.cls \in BuiltinVariants) =>
        LET v == validate_operands(last.cls, last.a, last.b)
            n == Len(last.steps)
        IN  /\ n >= 1
            /\ last.steps[1].fn \in ValidateSteps
            /\ \A i \in 1..n :
                   /\ last.steps[i].a = last.a /\ last.steps[i].b = last.b
                   /\ last.steps[i].fn \notin ValidateSteps =>
                          /\ i = n
                          /\ \A j \in 1..(i - 1) : last.steps[j].fn \in ValidateSteps
            /\ v.out.kind = "raise" =>
                   /\ \A i \in 1..n : last.steps[i].fn \in ValidateSteps
                   /\ last.out = v.out
                   /\ last.out.exc = "ValidationError"
            /\ v.out.kind = "return" => last.steps[n].fn = ArithmeticStep(last.cls)
            /\ last.cls # "Division" => v.out.kind = "return" /\ last.out.kind = "return"

C7_Witness ==
    /\ ExecutedBy(last, "Division")
    /\ last.out.exc = "ValidationError"
    /\ Len(last.steps) = 2
    /\ last.via = "direct"

----------------------------------------------------------------------------
(* Exactness of results, stated on integers and digit strings.             *)

\* digits * m + carry for a small integer m
RECURSIVE BigMul(_, _, _)
BigMul(ds, m, carry) ==
    IF Len(ds) = 0 THEN (IF carry = 0 THEN <<>> ELSE DigitsOf(carry))
    ELSE LET t == ds[Len(ds)] * m + carry
         IN  Append(BigMul(SubSeq(ds, 1, Len(ds) - 1), m, t \div 10), t % 10)

PadTo(ds, n) == Zeros(n - Len(ds)) \o ds

\* x < y for digit strings of one length
RECURSIVE BigLess(_, _)
BigLess(x, y) ==
    IF Len(x) = 0 THEN FALSE
    ELSE IF Head(x) # Head(y) THEN Head(x) < Head(y)
    ELSE BigLess(Tail(x), Tail(y))

\* x - y - borrow for digit strings of one length with x >= y
RECURSIVE BigSub(_, _, _)
BigSub(x, y, borrow) ==
    IF Len(x) = 0 THEN <<>>
    ELSE LET n == Len(x)
             t == x[n] - y[n] - borrow
         IN  Append(BigSub(SubSeq(x, 1, n - 1), SubSeq(y, 1, n - 1),
                           IF t < 0 THEN 1 ELSE 0),
                    IF t < 0 THEN t + 10 ELSE t)

\* |x - y| of two digit strings
BigDiff(x, y) ==
    LET n  == IF Len(x) > Len(y) THEN Len(x) ELSE Len(y)
        px == PadTo(x, n)
        py == PadTo(y, n)
    IN  StripLeading(IF BigLess(px, py) THEN BigSub(py, px, 0) ELSE BigSub(px, py, 0))

\* | a - r * b | in units of 10^m, m the smallest exponent at hand: the error
\* of r as the quotient a / b, times |b|
QuotientError(a, b, r) ==
    LET rb == StripLeading(BigMul(r.int, IntOf(b.int), 0))
        m  == Min(a.exp, r.exp + b.exp)
    IN  BigDiff(a.int \o Zeros(a.exp - m), rb \o Zeros(r.exp + b.exp - m))

\* the sign of r is the sign of a / b (a zero has either sign)
QuotientSign(a, b, r) == IsZero(r) \/ r.sign = (a.sign + b.sign) % 2

\* r = a / b
ExactQuotient(a, b, r) ==
    /\ QuotientSign(a, b, r)
    /\ QuotientError(a, b, r) = <<0>>

\* | a / b - r | is at most half a unit of r's last digit
WithinHalfUlp(a, b, r) ==
    LET m   == Min(a.exp, r.exp + b.exp)
        err == QuotientError(a, b, r)
        ulp == Zeros(r.exp + b.exp - m)
        e2  == StripLeading(BigMul(err, 2, 0))
        lim == StripLeading(b.int \o ulp)
    IN  /\ QuotientSign(a, b, r)
        /\ \/ Len(e2) < Len(lim)
           \/ Len(e2) = Len(lim) /\ ~BigLess(lim, e2)

\* (n * 10^k) mod m
RECURSIVE RemPow(_, _, _)
RemPow(n, m, k) == IF k = 0 THEN n % m ELSE (RemPow(n, m, k - 1) * 10) % m

\* a / b has a finite decimal expansion
FiniteExpansion(a, b) ==
    \E k \in 0..Prec : RemPow(IntOf(a.int), IntOf(b.int), k) = 0

\* the value of d in units of 10^m
Scaled(d, m) == Signed(d) * Pow10(d.exp - m)

\* r is exactly the variant's arithmetic on a and b
ExactResult(cls, a, b, r) ==
    CASE cls = "Addition" ->
           LET m == Min(Min(a.exp, b.exp), r.exp)
           IN  Scaled(r, m) = Scaled(a, m) + Scaled(b, m)
      [] cls = "Subtraction" ->
           LET m == Min(Min(a.exp, b.exp), r.exp)
           IN  Scaled(r, m) = Scaled(a, m) - Scaled(b, m)
      [] cls = "Multiplication" ->
           LET m == Min(a.exp + b.exp, r.exp)
           IN  Scaled(r, m) = Signed(a) * Signed(b) * Pow10(a.exp + b.exp - m)
      [] cls = "Division" -> ExactQuotient(a, b, r)

\* an execute call of a built-in variant that returned a number
Computed(call) ==
    /\ call.op = "execute"
    /\ call.cls \in BuiltinVariants
    /\ call.out.kind = "return"

\* C8, as claimed: execute returns the exact result of the variant's
\* arithmetic, a + b, a - b, a * b, and a / b whenever b is not zero, with
\* the operand order kept.
C8_ExactArithmetic ==
    /\ (last.op = "execute" /\ last.cls \in BuiltinVariants /\ ~IsZero(last.b)) =>
           last.out.kind = "return"
    /\ Computed(last) => ExactResult(last.cls, last.a, last.b, last.out.value)

\* C8, amended: Addition, Subtraction and Multiplication return a + b, a - b
\* and a * b exactly; Division with b not zero returns a / b rounded to Prec
\* significant digits, half a unit of the last digit at most away from a / b,
\* which is a / b exactly when a / b has a finite decimal expansion and is a
\* Prec-digit approximation when it has none.
C8_ExactWithinPrecision ==
    /\ (last.op = "execute" /\ last.cls \in BuiltinVariants /\ ~IsZero(last.b)) =>
           last.out.kind = "return"
    /\ (Computed(last) /\ last.cls # "Division") =>
           ExactResult(last.cls, last.a, last.b, last.out.value)
    /\ (Computed(last) /\ last.cls = "Division") =>
           LET r == last.out.value
           IN  /\ Len(r.int) <= Prec
               /\ WithinHalfUlp(last.a, last.b, r)
               /\ FiniteExpansion(last.a, last.b) <=> ExactQuotient(last.a, last.b, r)
               /\ ~FiniteExpansion(last.a, last.b) => Len(r.int) = Prec

C8_Witness ==
    /\ Computed(last)
    /\ last.cls = "Division"
    /\ ~FiniteExpansion(last.a, last.b)
    /\ Len(last.out.value.int) = Prec
    /\ last.a.exp # last.b.exp

====
